---- MODULE Spec2Model ----
(***************************************************************************)
(* DDGo: the Flask service (app/src/app.py) and the deployment script      *)
(* (scripts/deploy.py).                                                    *)
(*                                                                         *)
(* Two programs, two specifications over one set of variables:             *)
(*   SpecApp     the HTTP service: lazily initialised global handles and   *)
(*               the /health/ready handler;                                *)
(*   SpecDeploy  the Deployer: deploy() and its steps, wait_for_deployment *)
(*               and verify_deployment (also called on their own).         *)
(***************************************************************************)
EXTENDS Integers, Sequences, FiniteSets

VARIABLES
    \* ---- app.py ----
    deps,            \* what the outside world answers to each dependency call
    db_pool,         \* global db_pool: "None" or "pool"
    redis_client,    \* global redis_client: "None" or "client"
    checkedOut,      \* connections taken from the pool and not returned
    resp,            \* last response built by a handler
    faults,          \* which check of the last readiness() hit a failing call
    escaped,         \* an exception left the last handler
    request,         \* the last request: endpoint and, for a search, the query
    calls,           \* dependency calls of the last handler, and those that failed
    lastReady,       \* last /health/ready answer since the dependencies changed
    store,           \* the cache: key -> value and remaining time to live
    firstAnswer,     \* per query: the uncached answer that filled the cache
    expect,          \* the first answer a search for the same query could repeat
    \* ---- deploy.py ----
    pc,              \* position of the deployment script
    caller,          \* the entry point: "main", "deploy", "wait" or "verify"
    environment,     \* Deployer.environment
    dry_run,         \* Deployer.dry_run
    skip_build, skip_terraform,
    outputs,         \* terraform outputs dict: "empty" or "full"
    executed,        \* external commands and network calls really executed
    steps,           \* steps of deploy() started, in order
    returned,        \* steps of deploy() that returned (True, where boolean)
    answer,          \* main: the answer to the production prompt, or "none"
    exitCode,        \* main: the code given to sys.exit, or "none"
    timeout,         \* wait_for_deployment: the timeout argument
    now,             \* wait_for_deployment: time.time() - start
    polls, sleeps,   \* wait_for_deployment: polls made, sleeps done
    lastPoll,        \* wait_for_deployment: what the latest poll observed
    scripted,        \* every poll so far saw several deployments, or one COMPLETED
    waitResult,      \* "none", "True", "False" or "raised"
    url,             \* verify_deployment: the url argument
    attempt,         \* verify_deployment: loop variable of range(5)
    probes, probeFails, vsleeps,
    lastProbe,       \* verify_deployment: outcome of the latest probe
    probed,          \* verify_deployment: URLs requested
    verifyResult,    \* "none", "True", "False" or "raised"
    deployResult     \* "none", "True" or "False"

appVars == <<deps, db_pool, redis_client, checkedOut, resp, faults, escaped, request,
            calls, lastReady, store, firstAnswer, expect>>
cfgVars == <<caller, environment, dry_run, skip_build, skip_terraform>>
waitVars == <<timeout, now, polls, sleeps, lastPoll, scripted, waitResult>>
verifyVars == <<url, attempt, probes, probeFails, vsleeps, lastProbe, probed, verifyResult>>
mainVars == <<answer, exitCode>>
deployVars == <<pc, cfgVars, mainVars, outputs, executed, steps, returned, waitVars,
               verifyVars, deployResult>>
vars == <<appVars, deployVars>>

----------------------------------------------------------------------------
(* Bounds *)
TickLen == 100
MaxAge == 300
MaxTimeout == 31
MaxPollDur == 2
MaxDeployments == 2

(* Program constants *)
maxconn == 10
CacheTTL == 300
PollInterval == 15
DefaultTimeout == 600
MaxAttempts == 5
Backoff == 10

----------------------------------------------------------------------------
(* app.py *)

PingResults == {"true", "false", "raise"}

\* The answer of every outbound call a handler can make.
Deps == [pool : BOOLEAN, getconn : BOOLEAN, query : BOOLEAN, putconn : BOOLEAN,
         redis : BOOLEAN, ping : PingResults, get : BOOLEAN, setex : BOOLEAN]

\* The bodies of POST /api/v1/search: no 'query' field, or its value.
Queries == {"a", "b"}
Missing == "<missing>"
Bodies == {Missing, ""} \cup Queries

NoResp == [endpoint |-> "none", status |-> "none", code |-> 0,
           checks |-> [database |-> FALSE, cache |-> FALSE],
           error |-> FALSE, query |-> "", results |-> <<>>, cached |-> FALSE]
NoRequest == [endpoint |-> "none", body |-> Missing]

\* get_db_pool(): the pool after the call, and whether the call raised.
get_db_pool_raises(d, p) == p = "None" /\ ~d.pool
get_db_pool(d, p) == IF p = "None" /\ d.pool THEN "pool" ELSE p

\* get_redis(): the client after the call (also the value returned). d.redis
\* says whether creating the client, with the ping it begins with, succeeds.
get_redisMutReconnect(d, r) == IF d.redis THEN "client" ELSE "None"
get_redis(d, r) == IF r = "None" /\ d.redis THEN "client" ELSE r

\* pool.getconn(): raises when the server refuses or the pool is exhausted.
getconn_ok(d, out) == d.getconn /\ out < maxconn

\* The database check of readiness(): [passed, raised, pool, out].
DbCheck(d, p, out) ==
    IF get_db_pool_raises(d, p)
    THEN [passed |-> FALSE, fault |-> TRUE, pool |-> p, out |-> out]
    ELSE IF ~getconn_ok(d, out)
    THEN [passed |-> FALSE, fault |-> TRUE, pool |-> get_db_pool(d, p), out |-> out]
    ELSE \* checks['database'] = True is set before the finally runs putconn
         [passed |-> d.query,
          fault  |-> ~d.query \/ ~d.putconn,
          pool   |-> get_db_pool(d, p),
          out    |-> IF d.putconn THEN out ELSE out + 1]

\* The cache check of readiness(): r and r.ping().
CacheCheck(d, r) ==
    LET c == get_redis(d, r) IN
    [passed |-> c # "None" /\ d.ping = "true",
     fault  |-> (r = "None" /\ ~d.redis) \/ (c # "None" /\ d.ping = "raise"),
     client |-> c]

\* is_ready = checks['database']
IsReadyMutBoth(checks) == checks.database /\ checks.cache
IsReady(checks) == checks.database

StatusCode(ready) == IF ready THEN 200 ELSE 503
StatusText(ready) == IF ready THEN "ready" ELSE "not_ready"

\* What a handler that is not the search leaves of the search bookkeeping.
NoSearch == expect' = [valid |-> FALSE, age |-> 0 - 1, results |-> <<>>] /\ UNCHANGED <<store, firstAnswer>>

\* GET /health/ready
Readiness ==
    LET db == DbCheck(deps, db_pool, checkedOut)
        ca == CacheCheck(deps, redis_client)
        checks == [database |-> db.passed, cache |-> ca.passed]
        answer_ == [NoResp EXCEPT !.endpoint = "readiness",
                                  !.status = StatusText(IsReady(checks)),
                                  !.code = StatusCode(IsReady(checks)),
                                  !.checks = checks]
    IN /\ db_pool' = db.pool
       /\ checkedOut' = db.out
       /\ redis_client' = ca.client
       /\ faults' = [database |-> db.fault, cache |-> ca.fault]
       /\ resp' = answer_
       /\ lastReady' = answer_
       /\ request' = [endpoint |-> "readiness", body |-> Missing]
       /\ calls' = {"get_db_pool", "get_redis"}
       /\ escaped' = FALSE
       /\ NoSearch
       /\ UNCHANGED deps

\* GET /health
Health ==
    /\ resp' = [NoResp EXCEPT !.endpoint = "health", !.status = "healthy", !.code = 200]
    /\ request' = [endpoint |-> "health", body |-> Missing]
    /\ calls' = {}
    /\ escaped' = FALSE
    /\ NoSearch
    /\ UNCHANGED <<deps, db_pool, redis_client, checkedOut, faults, lastReady>>

\* GET /health/live
LivenessMutProbe ==
    /\ resp' = [NoResp EXCEPT !.endpoint = "live", !.status = "alive",
                              !.code = StatusCode(deps.pool)]
    /\ request' = [endpoint |-> "live", body |-> Missing]
    /\ calls' = {"get_db_pool"}
    /\ escaped' = FALSE
    /\ db_pool' = get_db_pool(deps, db_pool)
    /\ NoSearch
    /\ UNCHANGED <<deps, redis_client, checkedOut, faults, lastReady>>
Liveness ==
    /\ resp' = [NoResp EXCEPT !.endpoint = "live", !.status = "alive", !.code = 200]
    /\ request' = [endpoint |-> "live", body |-> Missing]
    /\ calls' = {}
    /\ escaped' = FALSE
    /\ NoSearch
    /\ UNCHANGED <<deps, db_pool, redis_client, checkedOut, faults, lastReady>>

\* One dependency call starts to answer differently between two requests.
FieldValues(f) == IF f = "ping" THEN PingResults ELSE BOOLEAN
DepsChangeOf(fields) ==
    /\ \E f \in fields : \E v \in FieldValues(f) :
          /\ v # deps[f]
          /\ deps' = [deps EXCEPT ![f] = v]
    /\ lastReady' = NoResp
    /\ UNCHANGED <<db_pool, redis_client, checkedOut, resp, faults, escaped, request,
                   calls, store, firstAnswer, expect>>

\* The dependencies of readiness() change their behaviour.
DepsChange == DepsChangeOf({"pool", "getconn", "query", "putconn", "redis", "ping"})

\* results = [...] of search(): two results made from the query; the scores are
\* hundredths (0.95, 0.87).
Results(q) ==
    <<[id |-> 1, title |-> "Result for " \o q, score |-> 95],
      [id |-> 2, title |-> "Another result for " \o q, score |-> 87]>>

\* The text of a number below 100, and the number a text denotes (-1: none).
Digit == <<"0", "1", "2", "3", "4", "5", "6", "7", "8", "9">>
Numeral(n) == Digit[(n \div 10) + 1] \o Digit[(n % 10) + 1]
Numerals == [n \in 0..99 |-> Numeral(n)]
Number(t) == IF \E n \in 0..99 : Numerals[n] = t
             THEN CHOOSE n \in 0..99 : Numerals[n] = t
             ELSE 0 - 1

\* str(results): the text written to the cache, three tokens for each result.
RECURSIVE Str(_)
Str(rs) ==
    IF rs = <<>> THEN <<>>
    ELSE <<Numeral(rs[1].id), rs[1].title, Numeral(rs[1].score)>> \o Str(Tail(rs))

\* eval(cached): the list a cached text denotes, or an exception.
EvalMutFirstOnly(text) ==
    [ok |-> Len(text) >= 3,
     value |-> IF Len(text) >= 3
               THEN <<[id |-> Number(text[1]), title |-> text[2], score |-> Number(text[3])]>>
               ELSE <<>>]
Eval(text) ==
    LET n == Len(text) \div 3
        wellFormed == /\ Len(text) = 3 * n
                      /\ \A i \in 1..n : /\ Number(text[3 * i - 2]) >= 0
                                          /\ Number(text[3 * i]) >= 0
    IN [ok |-> wellFormed,
        value |-> IF wellFormed
                  THEN [i \in 1..n |-> [id |-> Number(text[3 * i - 2]),
                                        title |-> text[3 * i - 1],
                                        score |-> Number(text[3 * i])]]
                  ELSE <<>>]

\* cache_key = f"search:{query}"
CacheKey(q) == "search:" \o q

Keys == {CacheKey(q) : q \in Queries}
Absent == [val |-> <<>>, ttl |-> 0]
Garbage == <<"garbage">>
NoFirstAnswer == [age |-> 0 - 1, results |-> <<>>]
NoExpect == [valid |-> FALSE, age |-> 0 - 1, results |-> <<>>]

\* The cache lookup of search(): a hit with the decoded list, or a miss; every
\* exception of r.get and of eval is caught and logged.
CacheReadMutTrustEntry(d, r, key, entry) ==
    IF r = "None" THEN [hit |-> FALSE, value |-> <<>>, log |-> {"no client"}]
    ELSE IF ~d.get THEN [hit |-> FALSE, value |-> <<>>, log |-> {"get " \o key, "get raised"}]
    ELSE IF entry.val = <<>> THEN [hit |-> FALSE, value |-> <<>>, log |-> {"get " \o key}]
    ELSE [hit |-> TRUE, value |-> Eval(entry.val).value,
          log |-> {"get " \o key} \cup (IF Eval(entry.val).ok THEN {} ELSE {"eval raised"})]
CacheRead(d, r, key, entry) ==
    IF r = "None" THEN [hit |-> FALSE, value |-> <<>>, log |-> {"no client"}]
    ELSE IF ~d.get THEN [hit |-> FALSE, value |-> <<>>, log |-> {"get " \o key, "get raised"}]
    ELSE IF entry.val = <<>> THEN [hit |-> FALSE, value |-> <<>>, log |-> {"get " \o key}]
    ELSE IF Eval(entry.val).ok
    THEN [hit |-> TRUE, value |-> Eval(entry.val).value, log |-> {"get " \o key}]
    ELSE [hit |-> FALSE, value |-> <<>>, log |-> {"get " \o key, "eval raised"}]

\* data.get('query', '')
QueryOfMutDefault(body) == IF body = Missing THEN "a" ELSE body
QueryOf(body) == IF body = Missing THEN "" ELSE body

\* POST /api/v1/search
Search ==
    \E body \in Bodies :
      LET query == QueryOf(body)
          cache_key == CacheKey(query)
          r == get_redis(deps, redis_client)
          results == Results(query)
      IN \E rd \in {IF query = "" THEN [hit |-> FALSE, value |-> <<>>, log |-> {}]
                    ELSE CacheRead(deps, r, cache_key, store[cache_key])} :
         /\ request' = [endpoint |-> "search", body |-> body]
         /\ escaped' = FALSE
         /\ UNCHANGED <<deps, db_pool, checkedOut, faults, lastReady>>
         /\ IF query = ""
            THEN /\ resp' = [NoResp EXCEPT !.endpoint = "search", !.code = 400,
                                           !.error = TRUE]
                 /\ calls' = {}
                 /\ expect' = NoExpect
                 /\ UNCHANGED <<redis_client, store, firstAnswer>>
            ELSE /\ redis_client' = r
                 /\ expect' = IF firstAnswer[query].age >= 0 /\ r # "None" /\ deps.get
                              THEN [valid |-> TRUE, age |-> firstAnswer[query].age,
                                    results |-> firstAnswer[query].results]
                              ELSE NoExpect
                 /\ IF rd.hit
                    THEN /\ resp' = [NoResp EXCEPT !.endpoint = "search", !.code = 200,
                                                   !.query = query, !.results = rd.value,
                                                   !.cached = TRUE]
                         /\ calls' = {"get_redis"} \cup rd.log
                         /\ UNCHANGED <<store, firstAnswer>>
                    ELSE /\ resp' = [NoResp EXCEPT !.endpoint = "search", !.code = 200,
                                                   !.query = query, !.results = results,
                                                   !.cached = FALSE]
                         /\ calls' = {"get_redis"} \cup rd.log \cup
                                     (IF r = "None" THEN {}
                                      ELSE IF deps.setex THEN {"setex " \o cache_key}
                                      ELSE {"setex " \o cache_key, "setex raised"})
                         /\ IF r # "None" /\ deps.setex
                            THEN /\ store' = [store EXCEPT ![cache_key] =
                                                 [val |-> Str(results), ttl |-> CacheTTL]]
                                 /\ firstAnswer' = [firstAnswer EXCEPT ![query] =
                                                 [age |-> 0, results |-> results]]
                            ELSE UNCHANGED <<store, firstAnswer>>

\* TickLen seconds pass: entries lose time to live and expire at zero.
Tick ==
    /\ \/ \E k \in Keys : store[k] # Absent
       \/ \E q \in Queries : firstAnswer[q].age \in 0..(MaxAge - 1)
    /\ store' = [k \in Keys |->
                   IF store[k].ttl > TickLen
                   THEN [store[k] EXCEPT !.ttl = store[k].ttl - TickLen]
                   ELSE Absent]
    /\ firstAnswer' = [q \in Queries |->
                   IF firstAnswer[q].age < 0 THEN NoFirstAnswer
                   ELSE IF firstAnswer[q].age + TickLen >= MaxAge
                   THEN [firstAnswer[q] EXCEPT !.age = MaxAge]
                   ELSE [firstAnswer[q] EXCEPT !.age = firstAnswer[q].age + TickLen]]
    /\ UNCHANGED <<deps, db_pool, redis_client, checkedOut, resp, faults, escaped,
                   request, calls, lastReady, expect>>

\* Another writer of the same cache stores a value search() cannot decode.
Corrupt ==
    \E q \in Queries :
      /\ store[CacheKey(q)].val # Garbage
      /\ store' = [store EXCEPT ![CacheKey(q)] = [val |-> Garbage, ttl |-> CacheTTL]]
      /\ firstAnswer' = [firstAnswer EXCEPT ![q] = NoFirstAnswer]
      /\ UNCHANGED <<deps, db_pool, redis_client, checkedOut, resp, faults, escaped,
                     request, calls, lastReady, expect>>

\* The dependencies of search() change their behaviour. The database is up or
\* down (the pool cannot be created) for the whole behaviour.
DepsChangeSearch == DepsChangeOf({"redis", "get", "setex"})

AppStart ==
    /\ db_pool = "None"
    /\ redis_client = "None"
    /\ checkedOut = 0
    /\ resp = NoResp
    /\ faults = [database |-> FALSE, cache |-> FALSE]
    /\ escaped = FALSE
    /\ request = NoRequest
    /\ calls = {}
    /\ lastReady = NoResp
    /\ store = [k \in Keys |-> Absent]
    /\ firstAnswer = [q \in Queries |-> NoFirstAnswer]
    /\ expect = NoExpect

InitAppVars ==
    /\ deps \in {d \in Deps : d.get /\ d.setex}
    /\ AppStart

InitSearchVars ==
    /\ deps \in {d \in Deps : d.getconn /\ d.query /\ d.putconn /\ d.ping = "true"}
    /\ AppStart

----------------------------------------------------------------------------
(* deploy.py *)

VALID_ENVIRONMENTS == {"dev", "staging", "prod"}
Callers == {"main", "deploy", "wait", "verify"}
Timeouts == (0 - 1)..MaxTimeout
\* The time one poll takes. It is explored where the timeout is: in a direct
\* call of wait_for_deployment; under deploy() (timeout 600) polls are instant.
PollDurations == IF caller = "wait" THEN 0..MaxPollDur ELSE {0}
Urls == {"http://localhost", "http://alb"}

RolloutStates == {"COMPLETED", "IN_PROGRESS", "FAILED"}
\* service_info['deployments'] as the list of the rolloutState of each entry
DeploymentLists == UNION {[1..n -> RolloutStates] : n \in 0..MaxDeployments}

\* What one describe-services call gives: the command fails, its output does
\* not parse into services[0].deployments, or it is a list of deployments.
PollOutcomes == {[kind |-> "failed", deployments |-> <<>>],
                 [kind |-> "malformed", deployments |-> <<>>]}
                \cup {[kind |-> "ok", deployments |-> l] : l \in DeploymentLists}

\* len(deployments) == 1 and deployments[0]['rolloutState'] == 'COMPLETED'
IsCompletedMutFirst(deployments) ==
    Len(deployments) >= 1 /\ deployments[1] = "COMPLETED"
IsCompleted(deployments) ==
    Len(deployments) = 1 /\ deployments[1] = "COMPLETED"

\* What the loop body of wait_for_deployment does with a poll outcome:
\* "return" (True), "sleep" (log progress, sleep, next iteration) or "raise".
PollStep(o) ==
    IF o.kind = "failed" THEN "raise"            \* DeploymentError of run_command
    ELSE IF o.kind = "malformed" THEN "raise"    \* json.loads / ['services'][0]
    ELSE IF IsCompleted(o.deployments) THEN "return"
    ELSE IF Len(o.deployments) = 0 THEN "raise"  \* deployments[0]: IndexError
    ELSE "sleep"

\* The view of a poll the model remembers.
Observed(o) ==
    IF o.kind # "ok" THEN o.kind
    ELSE IF Len(o.deployments) = 0 THEN "empty"
    ELSE IF Len(o.deployments) > 1 THEN "several"
    ELSE IF o.deployments[1] = "COMPLETED" THEN "single_completed"
    ELSE "single_other"

\* urllib.request.urlopen(health_url, timeout=10): status 200, another status
\* that raises nothing (2xx), URLError (HTTPError included), or an exception
\* that is no URLError (a timeout or a reset while the response is read).
ProbeOutcomes == {"200", "2xx", "urlerror", "othererror"}

\* health_url = f"{url}/health"
HealthUrl(u) == u \o "/health"

\* run_command over a list of commands: the n-th fails (none when n > Len);
\* in a dry run nothing is executed and nothing fails.
Ran(cmds, n) ==
    IF dry_run THEN {}
    ELSE {cmds[i] : i \in {j \in 1..Len(cmds) : j <= n}}
Failed(cmds, n) == ~dry_run /\ n <= Len(cmds)

PrereqCmds == <<"tool --version", "aws sts get-caller-identity">>
TerraformCmds == <<"terraform init", "terraform plan", "terraform apply",
                   "terraform output">>
BuildCmds == <<"docker build">>
PushCmds == <<"aws ecr get-login-password", "docker login", "docker tag",
              "docker push">>
UpdateCmds == <<"aws ecs describe-services", "aws ecs describe-task-definition",
                "aws ecs register-task-definition", "aws ecs update-service">>
PollCmd == "aws ecs describe-services (poll)"

\* Where deploy() goes after a step that did not fail.
AfterPrereqMutIgnoreSkip == "terraform"
AfterPrereq == IF ~skip_terraform THEN "terraform"
               ELSE IF ~skip_build THEN "build" ELSE "update"
AfterTerraform == IF ~skip_build THEN "build" ELSE "update"

\* deploy(): an exception of a step is caught, deploy() returns False.
DeployFails ==
    /\ deployResult' = "False"
    /\ pc' = "done"
    /\ UNCHANGED returned

\* A step of deploy() returns to deploy() (check_prerequisites: returns True).
StepReturns(step) == returned' = returned \cup {step}

\* The entry points that run deploy().
InDeploy == caller \in {"main", "deploy"}

\* check_prerequisites(), and deploy() returning False when it fails.
\* It calls subprocess.run itself, whatever dry_run is.
CheckPrerequisites ==
    /\ pc = "prereq"
    /\ steps' = Append(steps, "check_prerequisites")
    /\ \E m \in {"ok", "missing_tools", "bad_credentials"} :
          /\ executed' = executed \cup
                 (IF m = "missing_tools" THEN {PrereqCmds[1]}
                  ELSE {PrereqCmds[1], PrereqCmds[2]})
          /\ IF m = "ok"
             THEN /\ pc' = AfterPrereq
                  /\ StepReturns("check_prerequisites")
                  /\ UNCHANGED deployResult
             ELSE DeployFails
    /\ UNCHANGED <<appVars, cfgVars, mainVars, outputs, waitVars, verifyVars>>

\* deploy_terraform(): four commands, then the outputs are parsed.
DeployTerraform ==
    /\ pc = "terraform"
    /\ steps' = Append(steps, "deploy_terraform")
    /\ \E n \in 1..(Len(TerraformCmds) + 1), out \in {"empty", "full", "unparsable"} :
          /\ executed' = executed \cup Ran(TerraformCmds, n)
          /\ IF Failed(TerraformCmds, n) \/ (~dry_run /\ out = "unparsable")
             THEN DeployFails /\ UNCHANGED outputs
             ELSE /\ outputs' = IF dry_run THEN "empty"
                                ELSE IF out = "full" THEN "full" ELSE "empty"
                  /\ pc' = AfterTerraform
                  /\ StepReturns("deploy_terraform")
                  /\ UNCHANGED deployResult
    /\ UNCHANGED <<appVars, cfgVars, mainVars, waitVars, verifyVars>>

\* build_image()
BuildImage ==
    /\ pc = "build"
    /\ steps' = Append(steps, "build_image")
    /\ \E n \in 1..(Len(BuildCmds) + 1) :
          /\ executed' = executed \cup Ran(BuildCmds, n)
          /\ IF Failed(BuildCmds, n)
             THEN DeployFails
             ELSE /\ pc' = "push"
                  /\ StepReturns("build_image")
                  /\ UNCHANGED deployResult
    /\ UNCHANGED <<appVars, cfgVars, mainVars, outputs, waitVars, verifyVars>>

\* push_to_ecr(): the docker login is skipped in a dry run.
PushToEcr ==
    /\ pc = "push"
    /\ steps' = Append(steps, "push_to_ecr")
    /\ \E n \in 1..(Len(PushCmds) + 1) :
          /\ executed' = executed \cup Ran(PushCmds, n)
          /\ IF Failed(PushCmds, n)
             THEN DeployFails
             ELSE /\ pc' = "update"
                  /\ StepReturns("push_to_ecr")
                  /\ UNCHANGED deployResult
    /\ UNCHANGED <<appVars, cfgVars, mainVars, outputs, waitVars, verifyVars>>

\* update_ecs_service(): returns after the first run_command in a dry run.
UpdateEcsService ==
    /\ pc = "update"
    /\ steps' = Append(steps, "update_ecs_service")
    /\ \E n \in 1..(Len(UpdateCmds) + 1) :
          /\ executed' = executed \cup Ran(UpdateCmds, n)
          /\ IF Failed(UpdateCmds, n)
             THEN DeployFails
             ELSE /\ pc' = "wait_enter"
                  /\ StepReturns("update_ecs_service")
                  /\ UNCHANGED deployResult
    /\ UNCHANGED <<appVars, cfgVars, mainVars, outputs, waitVars, verifyVars>>

\* wait_for_deployment ends with result r (a return or an exception).
WaitEnds(r) ==
    /\ waitResult' = r
    /\ pc' = IF InDeploy THEN "after_wait" ELSE "done"

\* wait_for_deployment up to start = time.time()
WaitEnter ==
    /\ pc = "wait_enter"
    /\ steps' = Append(steps, "wait_for_deployment")
    /\ IF dry_run
       THEN WaitEnds("True")
       ELSE pc' = "wait_loop" /\ UNCHANGED waitResult
    /\ UNCHANGED <<appVars, cfgVars, mainVars, returned, outputs, executed, timeout, now, polls, sleeps,
                   lastPoll, scripted, verifyVars, deployResult>>

\* while time.time() - start < timeout
LoopGuardMutEarly(elapsed, limit) == elapsed + PollInterval < limit
LoopGuardMutLe(elapsed, limit) == elapsed <= limit
LoopGuard(elapsed, limit) == elapsed < limit

\* One iteration of the loop up to the sleep: the poll, which takes d, and
\* what the body makes of it.
WaitPoll ==
    /\ pc = "wait_loop"
    /\ LoopGuard(now, timeout)
    /\ \E d \in PollDurations, o \in PollOutcomes :
          /\ now' = now + d
          /\ polls' = polls + 1
          /\ lastPoll' = Observed(o)
          /\ scripted' = (scripted /\ Observed(o) \in {"several", "single_completed"})
          /\ executed' = executed \cup {PollCmd}
          /\ CASE PollStep(o) = "return" -> WaitEnds("True")
               [] PollStep(o) = "raise" -> WaitEnds("raised")
               [] OTHER -> pc' = "wait_sleep" /\ UNCHANGED waitResult
    /\ UNCHANGED <<appVars, cfgVars, mainVars, returned, outputs, steps, timeout, sleeps, verifyVars,
                   deployResult>>

\* time.sleep(15)
WaitSleep ==
    /\ pc = "wait_sleep"
    /\ now' = now + PollInterval
    /\ sleeps' = sleeps + 1
    /\ pc' = "wait_loop"
    /\ UNCHANGED <<appVars, cfgVars, mainVars, returned, outputs, executed, steps, timeout, polls,
                   lastPoll, scripted, waitResult, verifyVars, deployResult>>

\* The loop condition is false: "Deployment timed out", return False.
WaitTimeout ==
    /\ pc = "wait_loop"
    /\ ~LoopGuard(now, timeout)
    /\ WaitEnds("False")
    /\ UNCHANGED <<appVars, cfgVars, mainVars, returned, outputs, executed, steps, timeout, now, polls,
                   sleeps, lastPoll, scripted, verifyVars, deployResult>>

\* deploy(): if not self.wait_for_deployment(...): raise DeploymentError;
\* then alb_dns and the call of verify_deployment.
DeployAfterWaitMutNoGate ==
    /\ pc = "after_wait"
    /\ pc' = "verify_enter"
    /\ url' = IF outputs = "full" THEN "http://alb" ELSE "http://localhost"
    /\ UNCHANGED <<appVars, cfgVars, mainVars, returned, outputs, executed, steps,
                   waitVars, attempt, probes, probeFails, vsleeps, lastProbe, probed,
                   verifyResult, deployResult>>
DeployAfterWait ==
    /\ pc = "after_wait"
    /\ IF waitResult = "True"
       THEN /\ pc' = "verify_enter"
            /\ url' = IF outputs = "full" THEN "http://alb" ELSE "http://localhost"
            /\ UNCHANGED deployResult
       ELSE DeployFails /\ UNCHANGED url
    /\ UNCHANGED <<appVars, cfgVars, mainVars, returned, outputs, executed, steps, waitVars, attempt,
                   probes, probeFails, vsleeps, lastProbe, probed, verifyResult>>

\* verify_deployment ends with result r (a return or an exception).
VerifyEnds(r) ==
    /\ verifyResult' = r
    /\ pc' = IF InDeploy THEN "after_verify" ELSE "done"

\* verify_deployment up to the for loop
VerifyEnter ==
    /\ pc = "verify_enter"
    /\ steps' = Append(steps, "verify_deployment")
    /\ IF dry_run
       THEN VerifyEnds("True")
       ELSE pc' = "verify_loop" /\ UNCHANGED verifyResult
    /\ UNCHANGED <<appVars, cfgVars, mainVars, returned, outputs, executed, waitVars, url, attempt, probes,
                   probeFails, vsleeps, lastProbe, probed, deployResult>>

\* What the loop body of verify_deployment does with a probe outcome:
\* "return" (True), "sleep" (the except clause), "next" or "raise".
ProbeStep(o) ==
    IF o = "200" THEN "return"
    ELSE IF o = "urlerror" THEN "sleep"
    ELSE IF o = "2xx" THEN "next"
    ELSE "raise"

\* for attempt in range(5): one probe
VerifyProbe ==
    /\ pc = "verify_loop"
    /\ attempt < MaxAttempts
    /\ \E o \in ProbeOutcomes :
          /\ lastProbe' = o
          /\ probes' = probes + 1
          /\ probeFails' = IF o = "200" THEN probeFails ELSE probeFails + 1
          /\ probed' = probed \cup {HealthUrl(url)}
          /\ executed' = executed \cup {"GET " \o HealthUrl(url)}
          /\ CASE ProbeStep(o) = "return" ->
                     VerifyEnds("True") /\ UNCHANGED attempt
               [] ProbeStep(o) = "raise" ->
                     VerifyEnds("raised") /\ UNCHANGED attempt
               [] ProbeStep(o) = "sleep" ->
                     pc' = "verify_sleep" /\ UNCHANGED <<attempt, verifyResult>>
               [] OTHER ->
                     attempt' = attempt + 1 /\ UNCHANGED <<pc, verifyResult>>
    /\ UNCHANGED <<appVars, cfgVars, mainVars, returned, outputs, steps, waitVars, url, vsleeps,
                   deployResult>>

\* except URLError: log, time.sleep(10); then the next value of attempt
VerifySleep ==
    /\ pc = "verify_sleep"
    /\ vsleeps' = Append(vsleeps, Backoff)
    /\ attempt' = attempt + 1
    /\ pc' = "verify_loop"
    /\ UNCHANGED <<appVars, cfgVars, mainVars, returned, outputs, executed, steps, waitVars, url, probes,
                   probeFails, lastProbe, probed, verifyResult, deployResult>>

\* range(5) is exhausted: "Health check failed after 5 attempts", return False
VerifyExhausted ==
    /\ pc = "verify_loop"
    /\ attempt >= MaxAttempts
    /\ VerifyEnds("False")
    /\ UNCHANGED <<appVars, cfgVars, mainVars, returned, outputs, executed, steps, waitVars, url, attempt,
                   probes, probeFails, vsleeps, lastProbe, probed, deployResult>>

\* deploy(): if not self.verify_deployment(...): raise DeploymentError;
\* otherwise return True.
DeployAfterVerify ==
    /\ pc = "after_verify"
    /\ deployResult' = IF verifyResult = "True" THEN "True" ELSE "False"
    /\ pc' = "done"
    /\ UNCHANGED <<appVars, cfgVars, mainVars, returned, outputs, executed, steps, waitVars, verifyVars>>

\* main(): what the operator may type at the production prompt.
Answers == {"y", "Y", "n", "N", "yes", ""}

\* response.lower()
Lower(a) == CASE a = "Y" -> "y"
              [] a = "N" -> "n"
              [] OTHER -> a

\* The process has not called sys.exit yet.
NotExited == 0 - 1

\* sys.exit(0 if success else 1)
ExitCodeMutZero(success) == 0
ExitCode(success) == IF success THEN 0 ELSE 1

\* if args.environment == 'prod' and not args.dry_run
NeedsConfirmationMutDryRunOnly == environment = "prod" /\ dry_run
NeedsConfirmation == environment = "prod" /\ ~dry_run

\* main() up to the call of deployer.deploy(): the production prompt, and
\* sys.exit(0) when the answer is not yes.
Main ==
    /\ pc = "main"
    /\ IF NeedsConfirmation
       THEN \E a \in Answers :
              /\ answer' = a
              /\ IF Lower(a) # "y"
                 THEN pc' = "exited" /\ exitCode' = 0
                 ELSE pc' = "prereq" /\ UNCHANGED exitCode
       ELSE pc' = "prereq" /\ UNCHANGED <<answer, exitCode>>
    /\ UNCHANGED <<appVars, cfgVars, outputs, executed, steps, returned, waitVars,
                   verifyVars, deployResult>>

\* main(): sys.exit(0 if success else 1) once deploy() has returned
MainExit ==
    /\ pc = "done"
    /\ caller = "main"
    /\ exitCode' = ExitCode(deployResult = "True")
    /\ pc' = "exited"
    /\ UNCHANGED <<appVars, cfgVars, answer, outputs, executed, steps, returned,
                   waitVars, verifyVars, deployResult>>

InitDeployVars ==
    /\ caller \in Callers
    /\ environment \in VALID_ENVIRONMENTS
    /\ dry_run \in BOOLEAN
    /\ skip_build \in BOOLEAN
    /\ skip_terraform \in BOOLEAN
    /\ ~InDeploy => ~skip_build /\ ~skip_terraform
    /\ answer = "none"
    /\ exitCode = NotExited
    /\ returned = {}
    /\ pc = CASE caller = "main" -> "main"
              [] caller = "deploy" -> "prereq"
              [] caller = "wait" -> "wait_enter"
              [] OTHER -> "verify_enter"
    /\ outputs = "empty"
    /\ executed = {}
    /\ steps = <<>>
    /\ timeout \in (IF caller = "wait" THEN Timeouts ELSE {DefaultTimeout})
    /\ now = 0
    /\ polls = 0
    /\ sleeps = 0
    /\ lastPoll = "none"
    /\ scripted = TRUE
    /\ waitResult = "none"
    /\ url \in (IF caller = "verify" THEN Urls ELSE {"none"})
    /\ attempt = 0
    /\ probes = 0
    /\ probeFails = 0
    /\ vsleeps = <<>>
    /\ lastProbe = "none"
    /\ probed = {}
    /\ verifyResult = "none"
    /\ deployResult = "none"

\* The deployment script is not running.
DeployIdle ==
    /\ caller = "none"
    /\ environment = "dev"
    /\ dry_run = FALSE
    /\ skip_build = FALSE
    /\ skip_terraform = FALSE
    /\ pc = "off"
    /\ answer = "none"
    /\ exitCode = NotExited
    /\ returned = {}
    /\ outputs = "empty"
    /\ executed = {}
    /\ steps = <<>>
    /\ timeout = DefaultTimeout
    /\ now = 0
    /\ polls = 0
    /\ sleeps = 0
    /\ lastPoll = "none"
    /\ scripted = TRUE
    /\ waitResult = "none"
    /\ url = "none"
    /\ attempt = 0
    /\ probes = 0
    /\ probeFails = 0
    /\ vsleeps = <<>>
    /\ lastProbe = "none"
    /\ probed = {}
    /\ verifyResult = "none"
    /\ deployResult = "none"

\* The service has answered no request yet and its dependencies are up.
AppIdle ==
    /\ InitAppVars
    /\ deps = [pool |-> TRUE, getconn |-> TRUE, query |-> TRUE, putconn |-> TRUE,
               redis |-> TRUE, ping |-> "true", get |-> TRUE, setex |-> TRUE]

----------------------------------------------------------------------------
(* Specifications *)

InitApp == InitAppVars /\ DeployIdle
NextApp ==
    \/ Readiness /\ UNCHANGED deployVars
    \/ Health /\ UNCHANGED deployVars
    \/ Liveness /\ UNCHANGED deployVars
    \/ DepsChange /\ UNCHANGED deployVars
SpecApp == InitApp /\ [][NextApp]_vars

\* All four endpoints, the cache contents and the passing of time.
InitSearch == InitSearchVars /\ DeployIdle
NextSearch ==
    \/ Search /\ UNCHANGED deployVars
    \/ Readiness /\ UNCHANGED deployVars
    \/ Health /\ UNCHANGED deployVars
    \/ Liveness /\ UNCHANGED deployVars
    \/ Tick /\ UNCHANGED deployVars
    \/ Corrupt /\ UNCHANGED deployVars
    \/ DepsChangeSearch /\ UNCHANGED deployVars
SpecSearch == InitSearch /\ [][NextSearch]_vars

InitDeploy == InitDeployVars /\ AppIdle
NextDeploy ==
    \/ Main
    \/ MainExit
    \/ CheckPrerequisites
    \/ DeployTerraform
    \/ BuildImage
    \/ PushToEcr
    \/ UpdateEcsService
    \/ WaitEnter
    \/ WaitPoll
    \/ WaitSleep
    \/ WaitTimeout
    \/ DeployAfterWait
    \/ VerifyEnter
    \/ VerifyProbe
    \/ VerifySleep
    \/ VerifyExhausted
    \/ DeployAfterVerify
SpecDeploy == InitDeploy /\ [][NextDeploy]_vars

\* wait_for_deployment called on its own, with every timeout of Timeouts. It
\* is one thread that runs until it ends: a step that can be taken is taken.
InitWait == InitDeploy /\ caller = "wait"
NextWait ==
    \/ WaitEnter
    \/ WaitPoll
    \/ WaitSleep
    \/ WaitTimeout
SpecWaitFair == InitWait /\ [][NextWait]_vars /\ WF_vars(NextWait)

----------------------------------------------------------------------------
(* Properties *)

WaitEnded == waitResult # "none"
VerifyEnded == verifyResult # "none"

\* C1: GET /health/ready answers 'ready' with 200 exactly when the database
\* check passed and 'not_ready' with 503 otherwise; the cache check is
\* reported in checks.cache and changes neither the status nor the code.
C1_ReadyIffDatabase ==
    resp.endpoint = "readiness" =>
        /\ resp.checks.database => resp.status = "ready" /\ resp.code = 200
        /\ ~resp.checks.database => resp.status = "not_ready" /\ resp.code = 503

\* The database check passed, the cache check failed, the answer is ready/200.
C1_Witness ==
    /\ resp.endpoint = "readiness"
    /\ resp.checks.database /\ ~resp.checks.cache
    /\ resp.status = "ready" /\ resp.code = 200

\* C2: every failing call of a check (pool creation, getconn, the probe
\* query, putconn, creating or pinging the cache client) is caught and the
\* check is recorded as false; no exception leaves readiness(), and a failed
\* database check gives not_ready.
C2_FailureRecordedFalse ==
    resp.endpoint = "readiness" =>
        /\ faults.database => ~resp.checks.database
        /\ faults.cache => ~resp.checks.cache
        /\ ~escaped
        /\ ~resp.checks.database => resp.status = "not_ready" /\ resp.code = 503

\* C3: a failed describe-services poll does not end the wait: after it the
\* loop is still polling, or it ended later by the timeout (False).
C3_PollFailureContinues ==
    lastPoll = "failed" =>
        \/ pc \in {"wait_sleep", "wait_loop"} /\ waitResult = "none"
        \/ waitResult = "False"

\* C4: wait_for_deployment and verify_deployment never let an exception
\* reach their caller: once ended, each has returned a boolean.
C4_NoExceptionPropagates ==
    /\ WaitEnded => waitResult \in {"True", "False"}
    /\ VerifyEnded => verifyResult \in {"True", "False"}

\* C5: outside a dry run wait_for_deployment returns True exactly at the
\* first poll, started before the timeout, that sees one deployment whose
\* rolloutState is COMPLETED; after a poll that sees several deployments or
\* one that is not COMPLETED it stays in progress: it sleeps and goes back to
\* the loop condition.
C5_TrueIffSingleCompleted ==
    /\ [](~dry_run => (waitResult = "True" <=> lastPoll = "single_completed"))
    /\ [][(~dry_run /\ waitResult # "True" /\ waitResult' = "True")
            => (pc = "wait_loop" /\ now < timeout /\ polls' = polls + 1)]_vars
    /\ [][(polls' = polls + 1 /\ lastPoll' \in {"several", "single_other"})
            => (pc' = "wait_sleep" /\ waitResult' = "none")]_vars
    /\ [][pc = "wait_sleep" => (pc' = "wait_loop" /\ waitResult' = "none")]_vars

\* True at the third poll, after two polls that saw something else.
C5_Witness ==
    /\ ~dry_run /\ waitResult = "True" /\ lastPoll = "single_completed"
    /\ polls = 3 /\ ~scripted

\* C6 as claimed: with several deployments for N polls and then one COMPLETED,
\* and N x 15 below the timeout, the wait returns True after N + 1 polls and
\* N sleeps; so it never times out after N such polls while N x 15 < timeout.
C6_SuccessWhenSleepsBelowTimeout ==
    (~dry_run /\ scripted) =>
        /\ waitResult = "True" => polls = sleeps + 1
        /\ waitResult = "False" => ~(sleeps * PollInterval < timeout)

\* C6 amended: the time that counts is the elapsed time, N x 15 plus the time
\* the N polls took. The wait times out after N such polls only when that
\* has reached the timeout; otherwise it returns True at poll N + 1, having
\* slept N times 15 and not after the successful poll.
C6_SuccessWhenElapsedBelowTimeout ==
    (~dry_run /\ scripted) =>
        /\ now >= sleeps * PollInterval
        /\ now <= sleeps * PollInterval + polls * MaxPollDur
        /\ waitResult = "True" => polls = sleeps + 1 /\ lastPoll = "single_completed"
        /\ waitResult = "False" => polls = sleeps /\ now >= timeout
        /\ waitResult \in {"True", "False", "none"}

\* Two polls saw several deployments, the third one COMPLETED: True after
\* three polls and two sleeps.
C6_Witness ==
    /\ ~dry_run /\ scripted /\ waitResult = "True"
    /\ polls = 3 /\ sleeps = 2

\* C7: when completion is not observed the wait returns False, and it has
\* blocked its caller for at most timeout + 15.
C7_TimedOutWithinBound ==
    (~dry_run /\ WaitEnded /\ lastPoll # "single_completed") =>
        /\ waitResult = "False"
        /\ now <= timeout + PollInterval

\* C8: verify_deployment probes <url>/health at most 5 times, returns True at
\* the first 200 and probes no more, and returns False exactly when all 5
\* attempts failed.
C8_BoundedRetry ==
    ~dry_run =>
        /\ probes <= MaxAttempts
        /\ probed \subseteq {HealthUrl(url)}
        /\ verifyResult = "True" <=> lastProbe = "200"
        /\ VerifyEnded =>
              (verifyResult = "False" <=> (probes = MaxAttempts /\ probeFails = MaxAttempts))

\* C9: verify_deployment sleeps 10 after every failed attempt that another
\* attempt follows and at no other time: never after the last attempt, so at
\* most 4 times.
C9_SleepOnlyBetweenAttempts ==
    ~dry_run =>
        /\ \A i \in 1..Len(vsleeps) : vsleeps[i] = Backoff
        /\ Len(vsleeps) <= MaxAttempts - 1
        /\ (pc = "verify_loop" /\ attempt < MaxAttempts) => Len(vsleeps) = probes
        /\ (VerifyEnded /\ probes > 0) => Len(vsleeps) = probes - 1

\* C10: in a dry run deploy() executes no external command and no network
\* call in any step, and returns True.
C10_DryRunNoOp ==
    (dry_run /\ InDeploy) =>
        /\ executed = {}
        /\ pc = "done" => deployResult = "True"

Range(seq) == {seq[i] : i \in 1..Len(seq)}

\* The steps of deploy() in the order of its source.
FullOrder == <<"check_prerequisites", "deploy_terraform", "build_image", "push_to_ecr",
               "update_ecs_service", "wait_for_deployment", "verify_deployment">>
Pos(step) == CHOOSE i \in 1..Len(FullOrder) : FullOrder[i] = step

\* The operator was asked and did not answer yes.
Cancelled == answer # "none" /\ Lower(answer) # "y"

\* Every step deploy() started went well.
AllStepsWell ==
    /\ \A st \in Range(steps) \ {"wait_for_deployment", "verify_deployment"} :
          st \in returned
    /\ waitResult = "True"
    /\ verifyResult = "True"

C17_StepsGated ==
    InDeploy =>
        /\ \A i, j \in 1..Len(steps) : i < j => Pos(steps[i]) < Pos(steps[j])
        /\ "update_ecs_service" \in Range(steps) => "check_prerequisites" \in returned
        /\ "wait_for_deployment" \in Range(steps) => "update_ecs_service" \in returned
        /\ "verify_deployment" \in Range(steps) => waitResult = "True"
        /\ deployResult = "True" => (waitResult = "True" /\ verifyResult = "True")

\* A real deployment that went through every step and returned True.
C17_Witness ==
    /\ InDeploy /\ ~dry_run /\ deployResult = "True"
    /\ steps = FullOrder

\* C18: wait_for_deployment always ends: once in its loop it eventually
\* leaves it, also when completion is never reported; no poll starts once the
\* elapsed time has reached the timeout; with a timeout of 0 or less it
\* returns False without a poll.
C18_WaitTerminates ==
    /\ [](pc \in {"wait_loop", "wait_sleep"} => <>WaitEnded)
    /\ [][polls' = polls + 1 => now < timeout]_vars
    /\ []((~dry_run /\ timeout <= 0 /\ WaitEnded) => (waitResult = "False" /\ polls = 0))

\* Three polls never saw completion and the wait timed out.
C18_Witness ==
    /\ ~dry_run /\ waitResult = "False"
    /\ polls = 3 /\ lastPoll = "single_other"

\* The steps deploy() is left with under the skip flags.
Kept(step) ==
    /\ skip_terraform => step # "deploy_terraform"
    /\ skip_build => step \notin {"build_image", "push_to_ecr"}
ExpectedSteps == SelectSeq(FullOrder, Kept)

C12_ReadinessIdempotent ==
    [][(Readiness /\ lastReady.endpoint = "readiness") =>
          /\ resp'.status = lastReady.status
          /\ resp'.checks = lastReady.checks
          /\ resp'.code = lastReady.code]_vars

C14_LiveAndHealthAlways200 ==
    /\ [](request.endpoint = "live" =>
            (resp.code = 200 /\ resp.status = "alive" /\ calls = {} /\ ~escaped))
    /\ [](request.endpoint = "health" =>
            (resp.code = 200 /\ resp.status = "healthy" /\ calls = {} /\ ~escaped))
    /\ [][request'.endpoint \in {"live", "health"} =>
            UNCHANGED <<db_pool, redis_client, checkedOut>>]_vars

C14_Witness ==
    /\ request.endpoint = "live"
    /\ resp.code = 200
    /\ db_pool = "None" /\ ~deps.pool
    /\ redis_client = "client" /\ ~deps.get
    /\ \E k \in Keys : store[k] # Absent

\* C15: a search whose body has no query, or an empty one, answers 400 with an
\* 'error' field, makes no cache call and creates no cache client.
C15_EmptyQueryRejected ==
    /\ []((request.endpoint = "search" /\ request.body \in {Missing, ""}) =>
            (resp.code = 400 /\ resp.error /\ calls = {} /\ ~escaped))
    /\ [][(request'.endpoint = "search" /\ request'.body \in {Missing, ""}) =>
            UNCHANGED redis_client]_vars

C15_Witness ==
    /\ request = [endpoint |-> "search", body |-> Missing]
    /\ resp.code = 400
    /\ redis_client = "None"
    /\ deps.redis /\ deps.get /\ deps.setex

\* C16: a search with a non-empty query answers 200 with the query and two
\* results; when the client is missing, the read raises, the entry does not
\* decode or the write raises, the answer is the computed list with
\* cached = false and no exception leaves the handler.
CacheFaults == {"no client", "get raised", "eval raised", "setex raised"}
C20_CacheAsideRoundTrip ==
    /\ (expect.valid /\ expect.age < 300) =>
          /\ resp.endpoint = "search"
          /\ resp.cached
          /\ resp.results = expect.results
    /\ (resp.endpoint = "search" /\ resp.cached) =>
          /\ expect.valid
          /\ resp.results = expect.results
    /\ request.endpoint = "search" =>
          calls \subseteq CacheFaults \cup {"get_redis", "get search:" \o resp.query,
                                           "setex search:" \o resp.query}

C20_Witness ==
    /\ resp.endpoint = "search"
    /\ resp.query = "a"
    /\ resp.cached
    /\ expect.age > 0
    /\ store["search:b"] # Absent

\* C21: after any sequence of readiness evaluations no connection obtained
\* from the pool is still checked out.
C21_NoConnectionLeak == checkedOut = 0

\* C22: a production run that is no dry run leaves main() only on the answer
\* 'y' or 'Y'; on any other answer it exits with code 0 with no step started,
\* no command run and no deploy() result; for dev, staging and dry runs the
\* operator is never asked.
C22_ProdNeedsConfirmation ==
    caller = "main" =>
        /\ (environment = "prod" /\ ~dry_run /\ answer \notin {"y", "Y"}) =>
              /\ pc \in {"main", "exited"}
              /\ steps = <<>>
              /\ executed = {}
              /\ returned = {}
              /\ outputs = "empty"
              /\ deployResult = "none"
              /\ answer # "none" => pc = "exited"
              /\ pc = "exited" => (answer # "none" /\ exitCode = 0)
        /\ (environment # "prod" \/ dry_run) => answer = "none"
        /\ (pc # "main" /\ answer = "none") => (environment # "prod" \/ dry_run)

C22_Witness ==
    /\ caller = "main"
    /\ environment = "prod" /\ ~dry_run
    /\ answer = "yes"
    /\ pc = "exited"
    /\ exitCode = 0
    /\ steps = <<>>

====
